---- MODULE Spec2Model ----
(***************************************************************************)
(* Model of the nfl-data-pipeline importer (src/nfl-data-pipeline/src).    *)
(*                                                                         *)
(* Downloader (downloader.rs) fetches one CSV per (category, season) with  *)
(* bounded retries; DataPipeline (sync.rs) drives the per-season category  *)
(* imports, batches the parsed rows and upserts them through Database      *)
(* (database.rs) into players / games / game_stats / import_progress.      *)
(*                                                                         *)
(* The program is single threaded: one operation runs at a time, and `pc`  *)
(* is its position.  The network and the storage are the environment:      *)
(* every HTTP attempt draws its response, every storage statement may      *)
(* fail.  NOW() is the logical clock `now`, advanced once per top-level    *)
(* operation; uuid_generate_v4() is the counter `next_uuid`.               *)
(***************************************************************************)
EXTENDS Integers, Sequences, FiniteSets, TLC

\* ------------------------------------------------------------------ bounds
MaxYears == 2          \* seasons modelled: NgsFirstYear-1 .. NgsFirstYear-2+MaxYears
MaxRetries == 3        \* Downloader::new(max_retries), max_retries in 0..MaxRetries
MaxCfgRetries == 2     \* config.max_retries of a pipeline
MaxFaults == 1         \* fetch and storage failures in one behaviour of the pipeline
MaxRows == 2           \* rows of a source document
MaxBatch == 2          \* config.batch_size in 1..MaxBatch
MaxCalls == 2          \* season imports (import_year) in one behaviour

\* ------------------------------------------------------- program constants
NgsFirstYear == 2016
HttpNotFound == 404
BackoffBase == 2

Years == (NgsFirstYear - 1)..(NgsFirstYear - 2 + MaxYears)

NgsCategories == {"ngs_passing", "ngs_rushing", "ngs_receiving"}
Categories == {"rosters", "schedule", "player_stats"} \cup NgsCategories

NoUrl == [cat |-> "none", year |-> 0]
NoError == <<"none", 0>>
EmptyDoc == << >>

\* ------------------------------------------------------------ source rows
\* A row of a CSV document either fails to deserialize (ok = FALSE) or is a
\* typed record.  RosterPlayer: gsis_id and team; PlayerStat: player_id,
\* season, week, season_type and one stat column (passing_yards); Game:
\* game_id, season, week, game_type, home_team, away_team and home_score.
BadRow == [ok |-> FALSE, id |-> "", team |-> "", week |-> 0, kind |-> "", yards |-> 0]

RosterRows ==
    {BadRow} \cup
    { [ok |-> TRUE, id |-> i, team |-> t, week |-> 0, kind |-> "", yards |-> 0] :
        i \in {"P1", "P2"}, t \in {"KC", "STL"} }

\* The rows of the player stats document of season y: its rows carry the
\* season, but for one row of a season long before the first one on record.
StatRows(y) ==
    {BadRow} \cup
    { [ok |-> TRUE, id |-> "P1", team |-> "", season |-> y, week |-> 1, kind |-> "REG",
       yards |-> v] : v \in {10, 20} } \cup
    { [ok |-> TRUE, id |-> "P2", team |-> "", season |-> y, week |-> 1, kind |-> "REG",
       yards |-> 10],
      [ok |-> TRUE, id |-> "P1", team |-> "", season |-> y, week |-> 1, kind |-> "POST",
       yards |-> 30],
      [ok |-> TRUE, id |-> "P1", team |-> "", season |-> y - 100, week |-> 1, kind |-> "REG",
       yards |-> 10] }

\* The rows of the schedule document of season y: game G1 as scheduled and as
\* rescheduled to the next week with a score, a game of a team the teams
\* table does not hold, and a postseason game.
GameRows(y) ==
    {BadRow} \cup
    { [ok |-> TRUE, id |-> <<"G1", y>>, season |-> y, week |-> 1, kind |-> "REG",
       home |-> "KC", away |-> "STL", home_score |-> 0],
      [ok |-> TRUE, id |-> <<"G1", y>>, season |-> y, week |-> 2, kind |-> "REG",
       home |-> "KC", away |-> "STL", home_score |-> 14],
      [ok |-> TRUE, id |-> <<"G2", y>>, season |-> y, week |-> 1, kind |-> "REG",
       home |-> "XX", away |-> "KC", home_score |-> 7],
      [ok |-> TRUE, id |-> <<"G3", y>>, season |-> y, week |-> 1, kind |-> "POST",
       home |-> "KC", away |-> "STL", home_score |-> 7] }

SeqsUpTo(S, n) == UNION { [1..k -> S] : k \in 0..n }

\* The documents of a category and a season with at most n rows.
DocsOf(cat, y, n) ==
    CASE cat = "rosters" -> SeqsUpTo(RosterRows, n)
      [] cat = "player_stats" -> SeqsUpTo(StatRows(y), n)
      [] cat = "schedule" -> SeqsUpTo(GameRows(y), n)
      [] OTHER -> {EmptyDoc}

Urls == [cat : Categories, year : Years]
UnknownDoc == [known |-> FALSE, rows |-> EmptyDoc]
KnownDoc(d) == [known |-> TRUE, rows |-> d]

VARIABLES
    \* Downloader
    max_retries,    \* Downloader.max_retries
    dl_state,       \* "idle" | "attempt" | "backoff" | "done"
    dl_url,         \* the document being fetched: [cat, year]
    attempt,        \* loop variable of download_with_retry
    last_error,     \* last_error of download_with_retry
    dl_result,      \* the value download_* returned: [ok, body, err]
    net,            \* what this fetch did on the network: GETs and sleeps
    docs,           \* the documents the remote host serves, once observed
    \* DataPipeline
    config,         \* DataPipeline.config
    pc,             \* "idle" | "begin" | "fetch" | "rows" | "year_done"
    op,             \* the running operation: "none" | "full" | "year" | "update" |
                    \* "schedule" | "direct"
    todo,           \* run_full_import: the seasons still to import
    year,           \* import_year: the season
    cat,            \* the category import in progress
    rows,           \* the rows the CSV reader has not yielded yet
    batch,          \* `batch` of import_*
    imported,       \* `imported` of import_*
    flushes,        \* sizes of the batches this category import handed to upsert_*_batch
    year_log,       \* what each category import of this import_year returned
    op_result,      \* what the last finished operation returned
    calls,          \* operations started so far
    hist,           \* the operations finished so far, each with the store it left
    faults,         \* failures the environment has produced
    fault_budget,   \* failures the environment may produce
    row_budget,     \* rows the documents of the remote host hold in all
    call_budget,    \* season imports in one behaviour
    \* storage
    players, games, game_stats, import_progress,
    next_uuid,      \* uuid_generate_v4()
    now             \* NOW()

dlvars == <<max_retries, dl_state, dl_url, attempt, last_error, dl_result, net, docs>>
store == <<players, games, game_stats, import_progress>>
dbvars == <<players, games, game_stats, import_progress, next_uuid>>
ctlvars == <<config, pc, op, todo, year, cat, rows, batch, imported, flushes,
             year_log, op_result, calls, hist, now>>
envvars == <<faults, fault_budget, row_budget, call_budget>>
vars == <<dlvars, ctlvars, dbvars, envvars>>

\* --------------------------------------------------------------- Downloader
\* An HTTP attempt ends in a transport error while sending, or in a status;
\* with a success status the body read can still fail.
NoResponse == [sent |-> FALSE, status |-> 0, body |-> FALSE]
Responses ==
    { NoResponse } \cup
    { [sent |-> TRUE, status |-> s, body |-> FALSE] : s \in {200, 404, 500} } \cup
    { [sent |-> TRUE, status |-> 200, body |-> TRUE] }

is_success(status) == status \in 200..299

RECURSIVE Pow(_, _)
Pow(b, e) == IF e = 0 THEN 1 ELSE b * Pow(b, e - 1)

BackoffSecsFromZero(a) == Pow(BackoffBase, a - 1)

\* Duration::from_secs(2u64.pow(attempt)); attempt < max_retries stays far
\* below 64, where the power would leave u64.
BackoffSecs(a) == Pow(BackoffBase, a)

Get(url, a, r) == [ev |-> "GET", url |-> url, attempt |-> a, resp |-> r, secs |-> 0]
Sleep(url, a, s) == [ev |-> "sleep", url |-> url, attempt |-> a, resp |-> NoResponse, secs |-> s]

OkResult(body) == [ok |-> TRUE, body |-> body, err |-> NoError]
ErrResult(e) == [ok |-> FALSE, body |-> EmptyDoc, err |-> e]
NoResult == [ok |-> FALSE, body |-> EmptyDoc, err |-> <<"pending", 0>>]

HttpError(status) == <<"HTTP", status>>
RequestError == <<"Request error", 0>>
ReadError == <<"Failed to read response", 0>>
NotFoundError == <<"Data not found (404)", 0>>
ExhaustedError == <<"Download failed after retries", 0>>
NgsError == <<"NGS data only available from 2016 onwards", 0>>

LoopToOneMore(a, le) ==
    IF a <= max_retries + 1
    THEN /\ dl_state' = "attempt"
         /\ attempt' = a
         /\ dl_result' = NoResult
    ELSE /\ dl_state' = "done"
         /\ attempt' = attempt
         /\ dl_result' = ErrResult(IF le = NoError THEN ExhaustedError ELSE le)

\* `for attempt in 1..=self.max_retries`: the body runs for attempt a when a
\* is in the range, otherwise the function falls through to its last line,
\* `Err(last_error.unwrap_or_else(..))`.
LoopTo(a, le) ==
    IF a <= max_retries
    THEN /\ dl_state' = "attempt"
         /\ attempt' = a
         /\ dl_result' = NoResult
    ELSE /\ dl_state' = "done"
         /\ attempt' = attempt
         /\ dl_result' = ErrResult(IF le = NoError THEN ExhaustedError ELSE le)

download_with_retry(url) ==
    /\ dl_url' = url
    /\ last_error' = NoError
    /\ net' = << >>
    /\ attempt' = IF 1 <= max_retries THEN 1 ELSE 0
    /\ dl_state' = IF 1 <= max_retries THEN "attempt" ELSE "done"
    /\ dl_result' = IF 1 <= max_retries THEN NoResult ELSE ErrResult(ExhaustedError)
    /\ UNCHANGED <<max_retries, docs>>

NgsRejectsNone(c, y) == FALSE

\* `if year < 2016 { return Err(..) }` of download_ngs_passing/rushing/receiving
NgsRejects(c, y) == c \in NgsCategories /\ y < NgsFirstYear

\* download_player_stats / download_roster / download_schedule / download_ngs_*
download(c, y) ==
    IF NgsRejects(c, y)
    THEN /\ dl_url' = [cat |-> c, year |-> y]
         /\ last_error' = NoError
         /\ net' = << >>
         /\ dl_state' = "done"
         /\ attempt' = 0
         /\ dl_result' = ErrResult(NgsError)
         /\ UNCHANGED <<max_retries, docs>>
    ELSE download_with_retry([cat |-> c, year |-> y])

RECURSIVE SumRows(_, _)
SumRows(d, U) ==
    IF U = {} THEN 0
    ELSE LET u == CHOOSE x \in U : TRUE IN Len(d[u].rows) + SumRows(d, U \ {u})

\* The bodies the host may serve for url: the document is fixed once it has
\* been observed, and the documents of the host hold at most row_budget rows.
Bodies(url) ==
    IF docs[url].known THEN {docs[url].rows}
    ELSE DocsOf(url.cat, url.year, row_budget - SumRows(docs, Urls))

RetriesAfterMutant(r) == r.sent /\ ~is_success(r.status)

\* The arms of `match self.client.get(url).send()` that fall through to the
\* backoff and the next iteration: a status that is neither a success nor
\* 404, and a send error.
RetriesAfter(r) == ~r.sent \/ (~is_success(r.status) /\ r.status # HttpNotFound)

ErrorOf(r) == IF r.sent THEN HttpError(r.status) ELSE RequestError

GoodResponse == [sent |-> TRUE, status |-> 200, body |-> TRUE]

\* The responses the environment may still produce in this operation.
ResponsesNow == IF faults < fault_budget THEN Responses ELSE {GoodResponse}

\* One iteration of the loop of download_with_retry, up to the backoff.
Attempt ==
    /\ dl_state = "attempt"
    /\ \E r \in ResponsesNow :
        /\ net' = Append(net, Get(dl_url, attempt, r))
        /\ faults' = IF r = GoodResponse THEN faults ELSE faults + 1
        /\ IF r.sent /\ is_success(r.status)
           THEN \* return response.text().map_err(..)
                /\ dl_state' = "done"
                /\ IF r.body
                   THEN \E d \in Bodies(dl_url) :
                          /\ docs' = [docs EXCEPT ![dl_url] = KnownDoc(d)]
                          /\ dl_result' = OkResult(d)
                   ELSE dl_result' = ErrResult(ReadError) /\ docs' = docs
                /\ UNCHANGED <<attempt, last_error>>
           ELSE IF RetriesAfter(r)
           THEN /\ last_error' = ErrorOf(r)
                /\ docs' = docs
                /\ IF attempt < max_retries
                   THEN /\ dl_state' = "backoff"
                        /\ UNCHANGED <<attempt, dl_result>>
                   ELSE LoopTo(attempt + 1, ErrorOf(r))
           ELSE \* return Err(anyhow!("Data not found (404): {}", url))
                /\ dl_state' = "done"
                /\ dl_result' = ErrResult(NotFoundError)
                /\ UNCHANGED <<attempt, last_error, docs>>
    /\ UNCHANGED <<max_retries, dl_url, fault_budget, row_budget, call_budget, ctlvars, dbvars>>

\* `if attempt < self.max_retries { std::thread::sleep(..) }`, then the next
\* iteration.
Backoff ==
    /\ dl_state = "backoff"
    /\ net' = Append(net, Sleep(dl_url, attempt, BackoffSecs(attempt)))
    /\ LoopTo(attempt + 1, last_error)
    /\ UNCHANGED <<max_retries, dl_url, last_error, docs, ctlvars, dbvars, envvars>>

FirstYear == NgsFirstYear - 1
LastYear == NgsFirstYear - 2 + MaxYears

\* The configurations: the range of run_full_import is all the seasons, or
\* the empty range from the last season to the first.
Configs ==
    { [dry_run |-> d, batch_size |-> b, max_retries |-> MaxCfgRetries,
       start_year |-> r[1], end_year |-> r[2]] :
        d \in BOOLEAN, b \in 1..MaxBatch,
        r \in {<<FirstYear, LastYear>>, <<LastYear, FirstYear>>} }

NoConfig ==
    [dry_run |-> FALSE, batch_size |-> 1, max_retries |-> 0,
     start_year |-> 0, end_year |-> 0]

\* ------------------------------------------------- Downloader, called alone
\* A caller of the public download_* methods, outside any pipeline.
DirectCall ==
    /\ config = NoConfig
    /\ pc = "idle" /\ op = "none" /\ dl_state = "idle"
    /\ \E c \in Categories, y \in Years : download(c, y)
    /\ op' = "direct"
    /\ op_result' = "none"
    /\ faults' = 0
    /\ UNCHANGED <<config, pc, todo, year, cat, rows, batch, imported, flushes,
                   year_log, calls, hist, now, dbvars, fault_budget, row_budget, call_budget>>

\* The caller has the result: the locals of the call are gone.
Returned ==
    /\ dl_state' = "idle"
    /\ dl_url' = NoUrl
    /\ attempt' = 0
    /\ last_error' = NoError
    /\ dl_result' = NoResult
    /\ net' = << >>
    /\ UNCHANGED <<max_retries, docs>>

DirectReturn ==
    /\ op = "direct" /\ dl_state = "done"
    /\ Returned
    /\ op' = "none"
    /\ op_result' = IF dl_result.ok THEN "ok" ELSE "err"
    /\ UNCHANGED <<config, pc, todo, year, cat, rows, batch, imported, flushes,
                   year_log, calls, hist, now, dbvars, envvars>>

\* ------------------------------------------------------------- transformer
\* TEAM_MAPPING
TEAM_MAPPING ==
    [a \in {"STL", "SD", "OAK", "SL", "BLT", "CLV", "HST", "ARZ"} |->
        CASE a = "STL" -> "LA"
          [] a = "SD" -> "LAC"
          [] a = "OAK" -> "LV"
          [] a = "SL" -> "LA"
          [] a = "BLT" -> "BAL"
          [] a = "CLV" -> "CLE"
          [] a = "HST" -> "HOU"
          [] a = "ARZ" -> "ARI"]

\* str::to_uppercase, on the codes the model uses
to_uppercase(s) ==
    CASE s = "stl" -> "STL"
      [] s = "Stl" -> "STL"
      [] s = "sd" -> "SD"
      [] s = "oak" -> "OAK"
      [] s = "sl" -> "SL"
      [] s = "blt" -> "BLT"
      [] s = "clv" -> "CLV"
      [] s = "hst" -> "HST"
      [] s = "arz" -> "ARZ"
      [] s = "kc" -> "KC"
      [] s = "Kc" -> "KC"
      [] s = "gb" -> "GB"
      [] OTHER -> s

\* A lookup without the fallback to the upper-cased input.
NormalizeKeepsCase(abbr) ==
    IF abbr \in DOMAIN TEAM_MAPPING THEN TEAM_MAPPING[abbr] ELSE abbr

normalize_team_abbr(abbr) ==
    IF abbr \in DOMAIN TEAM_MAPPING THEN TEAM_MAPPING[abbr] ELSE to_uppercase(abbr)

\* str::replace(pat, ""): every match of pat, found from the left and not
\* overlapping an earlier one, is removed. A string is a sequence of
\* characters.
RECURSIVE Remove(_, _)
Remove(s, pat) ==
    IF Len(s) < Len(pat) THEN s
    ELSE IF SubSeq(s, 1, Len(pat)) = pat
         THEN Remove(SubSeq(s, Len(pat) + 1, Len(s)), pat)
         ELSE <<Head(s)>> \o Remove(Tail(s), pat)

\* str::trim
Trim(s) ==
    LET ink == { i \in 1..Len(s) : s[i] # " " }
    IN  IF ink = {} THEN << >>
        ELSE SubSeq(s, CHOOSE i \in ink : \A j \in ink : i <= j,
                       CHOOSE i \in ink : \A j \in ink : j <= i)

\* The suffixes, in the order the code removes them.
Suffixes ==
    << <<" ", "J", "r", ".">>, <<" ", "S", "r", ".">>, <<" ", "I", "I">>,
       <<" ", "I", "I", "I">>, <<" ", "I", "V">> >>

clean_player_name(name) ==
    Trim(Remove(Remove(Remove(Remove(Remove(name, Suffixes[1]), Suffixes[2]),
                              Suffixes[3]), Suffixes[4]), Suffixes[5]))

\* --------------------------------------------------------------- validator
\* A validation returns Ok(()) or the first Err; `warns` counts the warn!
\* lines it logged. An Option is <<"Some", v>> or <<"None", _>>.
VerdictWarningsFail(error, warnings) ==
    [ok |-> error = "" /\ \A i \in DOMAIN warnings : ~warnings[i], error |-> error,
     warns |-> Cardinality({ i \in DOMAIN warnings : warnings[i] })]

Verdict(error, warnings) ==
    [ok |-> error = "", error |-> error,
     warns |-> Cardinality({ i \in DOMAIN warnings : warnings[i] })]

validate_player(player) ==
    IF player.gsis_id = "" THEN Verdict("Player missing gsis_id", << >>)
    ELSE IF player.full_name = "" THEN Verdict("Player missing full_name", << >>)
    ELSE IF player.team = "" THEN Verdict("Player missing team", << >>)
    ELSE IF player.position = "" THEN Verdict("Player missing position", << >>)
    ELSE IF player.season < 1999 \/ player.season > 2030
         THEN Verdict("Invalid season", << >>)
    ELSE Verdict("",
           << player.position \notin
                {"QB", "RB", "WR", "TE", "FB", "HB", "OL", "OT", "OG", "C", "G", "T",
                 "DL", "DE", "DT", "NT", "LB", "ILB", "OLB", "MLB", "DB", "CB", "S",
                 "FS", "SS", "K", "P", "LS"},
              player.height[1] = "Some" /\
                ~\E i \in 1..Len(player.height[2]) : player.height[2][i] = "-",
              player.weight[1] = "Some" /\
                (player.weight[2] < 150 \/ player.weight[2] > 400) >>)

validate_game(game) ==
    IF game.game_id = "" THEN Verdict("Game missing game_id", << >>)
    ELSE IF game.home_team = "" THEN Verdict("Game missing home_team", << >>)
    ELSE IF game.away_team = "" THEN Verdict("Game missing away_team", << >>)
    ELSE IF game.gameday = "" THEN Verdict("Game missing gameday", << >>)
    ELSE IF game.season < 1999 \/ game.season > 2030
         THEN Verdict("Invalid season", << >>)
    ELSE IF game.week < 1 \/ game.week > 22 THEN Verdict("Invalid week", << >>)
    ELSE Verdict("",
           << game.game_type \notin {"REG", "PRE", "POST", "WC", "DIV", "CON", "SB"},
              game.home_score[1] = "Some" /\
                (game.home_score[2] < 0 \/ game.home_score[2] > 100),
              game.away_score[1] = "Some" /\
                (game.away_score[2] < 0 \/ game.away_score[2] > 100) >>)

validate_stat(stat) ==
    IF stat.player_id = "" THEN Verdict("Stat missing player_id", << >>)
    ELSE IF stat.season < 1999 \/ stat.season > 2030
         THEN Verdict("Invalid season", << >>)
    ELSE IF stat.week < 1 \/ stat.week > 22 THEN Verdict("Invalid week", << >>)
    ELSE Verdict("",
           << stat.season_type \notin {"REG", "PRE", "POST"},
              stat.passing_yards[1] = "Some" /\
                (stat.passing_yards[2] < 0 \/ stat.passing_yards[2] > 600),
              stat.rushing_yards[1] = "Some" /\
                (stat.rushing_yards[2] < -20 \/ stat.rushing_yards[2] > 300),
              stat.receiving_yards[1] = "Some" /\
                (stat.receiving_yards[2] < 0 \/ stat.receiving_yards[2] > 300) >>)

\* ---------------------------------------------------------------- Database
Null == <<"NULL", 0>>
Uuid(n) == <<"uuid", n>>

\* The teams table: the pipeline reads it and never writes it.
teams == { [id |-> <<"team", 1>>, abbreviation |-> "KC"],
           [id |-> <<"team", 2>>, abbreviation |-> "LA"] }

\* SELECT id FROM teams WHERE abbreviation = $1
get_team_id_by_abbr(abbr) ==
    IF \E t \in teams : t.abbreviation = abbr
    THEN (CHOOSE t \in teams : t.abbreviation = abbr).id
    ELSE Null

\* SELECT id FROM players WHERE nfl_id = $1
get_player_id_by_nfl_id(tbl, nfl_id) ==
    IF \E p \in tbl : p.nfl_id = nfl_id
    THEN (CHOOSE p \in tbl : p.nfl_id = nfl_id).id
    ELSE Null

\* Option<String>
SomeStatus(s) == <<"Some", s>>
NoStatus == <<"None", "">>

\* SELECT status FROM import_progress WHERE season = $1 AND data_type = $2
get_import_progress(tbl, season, data_type) ==
    IF \E e \in tbl : e.season = season /\ e.data_type = data_type
    THEN SomeStatus((CHOOSE e \in tbl : e.season = season /\ e.data_type = data_type).status)
    ELSE NoStatus

\* An INSERT without the ON CONFLICT clause on a table without the key.
MarkProgressAppends(tbl, season, data_type, status, n, t) ==
    tbl \cup { [season |-> season, data_type |-> data_type, status |-> status,
                records_imported |-> n, started_at |-> t,
                completed_at |-> IF status = "completed" THEN t ELSE 0] }

\* INSERT INTO import_progress .. ON CONFLICT (season, data_type) DO UPDATE SET
\* status, records_imported, completed_at
mark_progress(tbl, season, data_type, status, n, t) ==
    LET completed == IF status = "completed" THEN t ELSE 0
        hit == { e \in tbl : e.season = season /\ e.data_type = data_type }
    IN  IF hit = {}
        THEN tbl \cup { [season |-> season, data_type |-> data_type, status |-> status,
                         records_imported |-> n, started_at |-> t,
                         completed_at |-> completed] }
        ELSE (tbl \ hit) \cup
             { [e EXCEPT !.status = status, !.records_imported = n,
                         !.completed_at = completed] : e \in hit }

\* SELECT COUNT(*) FROM games / game_stats WHERE season = $1
count_rows(tbl, season) == Cardinality({ r \in tbl : r.season = season })

\* ---------------------------------------------------------------- Upserter
\* `imported as i32`, `v as i32`: the cast keeps a value of -2^31..2^31-1,
\* and the counts and yards of the model are a few units; any other value
\* is not kept, and stands for itself as <<"cast", n>>.
AsI32(n) == IF n \in -2147483647..2147483647 THEN n ELSE <<"cast", n>>

Db == [players |-> players, games |-> games, game_stats |-> game_stats, uuid |-> next_uuid]

Store(db) ==
    /\ players' = db.players
    /\ games' = db.games
    /\ game_stats' = db.game_stats
    /\ next_uuid' = db.uuid

UpsertPlayerReplaces(db, player, t) ==
    [db EXCEPT !.players = { p \in @ : p.nfl_id # player.id } \cup
                { [id |-> Uuid(db.uuid), nfl_id |-> player.id,
                   team_id |-> get_team_id_by_abbr(normalize_team_abbr(player.team)),
                   created_at |-> t, updated_at |-> t] },
               !.uuid = @ + 1]

UpsertPlayerInserts(db, player, t) ==
    [db EXCEPT !.players = @ \cup
                { [id |-> Uuid(db.uuid), nfl_id |-> player.id,
                   team_id |-> get_team_id_by_abbr(normalize_team_abbr(player.team)),
                   created_at |-> t, updated_at |-> t] },
               !.uuid = @ + 1]

\* INSERT INTO players .. ON CONFLICT (nfl_id) DO UPDATE SET .., updated_at = NOW()
upsert_player(db, player, t) ==
    LET team_abbr == normalize_team_abbr(player.team)
        team_id == get_team_id_by_abbr(team_abbr)
        hit == { p \in db.players : p.nfl_id = player.id }
    IN  IF hit = {}
        THEN [db EXCEPT !.players = @ \cup
                         { [id |-> Uuid(db.uuid), nfl_id |-> player.id, team_id |-> team_id,
                            created_at |-> t, updated_at |-> t] },
                        !.uuid = @ + 1]
        ELSE [db EXCEPT !.players = (@ \ hit) \cup
                         { [p EXCEPT !.team_id = team_id, !.updated_at = t] : p \in hit }]

RECURSIVE UpsertPlayersBackwards(_, _, _)
\* The records of the batch taken from the last to the first.
UpsertPlayersBackwards(db, recs, t) ==
    IF recs = << >> THEN db
    ELSE UpsertPlayersBackwards(upsert_player(db, recs[Len(recs)], t),
                                SubSeq(recs, 1, Len(recs) - 1), t)

RECURSIVE UpsertPlayers(_, _, _)
\* `for player in players { self.upsert_player(player)?; }`
UpsertPlayers(db, recs, t) ==
    IF recs = << >> THEN db
    ELSE UpsertPlayers(upsert_player(db, Head(recs), t), Tail(recs), t)

UpsertPlayersBatchWet(db, recs, fail, t) ==
    [ok |-> fail = 0,
     db |-> UpsertPlayers(db, SubSeq(recs, 1, IF fail = 0 THEN Len(recs) ELSE fail - 1), t)]

\* A loop that logs the failure of a record and goes on with the next.
UpsertPlayersBatchContinues(db, recs, fail, t) ==
    IF config.dry_run
    THEN [ok |-> TRUE, db |-> db]
    ELSE [ok |-> fail = 0,
          db |-> IF fail = 0 THEN UpsertPlayers(db, recs, t)
                 ELSE UpsertPlayers(UpsertPlayers(db, SubSeq(recs, 1, fail - 1), t),
                                    SubSeq(recs, fail + 1, Len(recs)), t)]

\* fail = 0: every statement succeeds; fail = i: the upsert of record i fails
\* with a storage error, after records 1..i-1 were written.
upsert_players_batch(db, recs, fail, t) ==
    IF config.dry_run
    THEN [ok |-> TRUE, db |-> db]
    ELSE [ok |-> fail = 0,
          db |-> UpsertPlayers(db, SubSeq(recs, 1, IF fail = 0 THEN Len(recs) ELSE fail - 1), t)]

UpsertGameUnchecked(db, game, t) ==
    LET home_team_id == get_team_id_by_abbr(normalize_team_abbr(game.home))
        away_team_id == get_team_id_by_abbr(normalize_team_abbr(game.away))
        hit == { g \in db.games : g.nfl_game_id = game.id }
    IN  IF hit = {}
        THEN [db EXCEPT !.games = @ \cup
                         { [id |-> Uuid(db.uuid), nfl_game_id |-> game.id,
                            season |-> game.season, week |-> game.week,
                            home_team_id |-> home_team_id, away_team_id |-> away_team_id,
                            home_score |-> game.home_score, status |-> "final",
                            created_at |-> t, updated_at |-> t] },
                        !.uuid = @ + 1]
        ELSE [db EXCEPT !.games = (@ \ hit) \cup
                         { [g EXCEPT !.home_score = game.home_score, !.status = "final",
                                     !.updated_at = t] : g \in hit }]

\* A game of a team that is not found is skipped: `return Ok(())`.  Else
\* INSERT INTO games .. ON CONFLICT (nfl_game_id) DO UPDATE SET home_score,
\* away_score, status, updated_at = NOW()
upsert_game(db, game, t) ==
    LET home_team_id == get_team_id_by_abbr(normalize_team_abbr(game.home))
        away_team_id == get_team_id_by_abbr(normalize_team_abbr(game.away))
        hit == { g \in db.games : g.nfl_game_id = game.id }
    IN  IF home_team_id = Null \/ away_team_id = Null
        THEN db
        ELSE IF hit = {}
        THEN [db EXCEPT !.games = @ \cup
                         { [id |-> Uuid(db.uuid), nfl_game_id |-> game.id,
                            season |-> game.season, week |-> game.week,
                            home_team_id |-> home_team_id, away_team_id |-> away_team_id,
                            home_score |-> game.home_score, status |-> "final",
                            created_at |-> t, updated_at |-> t] },
                        !.uuid = @ + 1]
        ELSE [db EXCEPT !.games = (@ \ hit) \cup
                         { [g EXCEPT !.home_score = game.home_score, !.status = "final",
                                     !.updated_at = t] : g \in hit }]

RECURSIVE UpsertGames(_, _, _)
\* `for game in games { self.upsert_game(game)?; }`
UpsertGames(db, recs, t) ==
    IF recs = << >> THEN db
    ELSE UpsertGames(upsert_game(db, Head(recs), t), Tail(recs), t)

\* fail as in upsert_players_batch
upsert_games_batch(db, recs, fail, t) ==
    IF config.dry_run
    THEN [ok |-> TRUE, db |-> db]
    ELSE [ok |-> fail = 0,
          db |-> UpsertGames(db, SubSeq(recs, 1, IF fail = 0 THEN Len(recs) ELSE fail - 1), t)]

\* A stat of a player that is not found is skipped: `return Ok(())`.  Else
\* INSERT INTO game_stats .. ON CONFLICT (player_id, season, week) DO UPDATE SET ..
\* with $2 = stat.season, $3 = stat.week
upsert_stat(db, stat, t) ==
    LET player_id == get_player_id_by_nfl_id(db.players, stat.id)
        hit == { g \in db.game_stats :
                    g.player_id = player_id /\ g.season = stat.season /\ g.week = stat.week }
    IN  IF player_id = Null
        THEN db
        ELSE IF hit = {}
        THEN [db EXCEPT !.game_stats = @ \cup
                         { [id |-> Uuid(db.uuid), player_id |-> player_id,
                            season |-> stat.season, week |-> stat.week,
                            passing_yards |-> AsI32(stat.yards),
                            created_at |-> t, updated_at |-> t] },
                        !.uuid = @ + 1]
        ELSE [db EXCEPT !.game_stats = (@ \ hit) \cup
                         { [g EXCEPT !.passing_yards = AsI32(stat.yards),
                                     !.updated_at = t] : g \in hit }]

RECURSIVE UpsertStats(_, _, _, _, _)
\* `for stat in stats { if let Err(e) = self.upsert_stat(stat) { warn!(..) } }`
UpsertStats(db, recs, i, failing, t) ==
    IF i > Len(recs) THEN db
    ELSE UpsertStats(IF i \in failing THEN db ELSE upsert_stat(db, recs[i], t),
                     recs, i + 1, failing, t)

UpsertStatsBatchAborts(db, recs, failing, t) ==
    LET first == IF failing = {} THEN Len(recs) + 1
                 ELSE CHOOSE i \in failing : \A j \in failing : i <= j
    IN  IF config.dry_run
        THEN [ok |-> TRUE, db |-> db]
        ELSE [ok |-> failing = {},
              db |-> UpsertStats(db, SubSeq(recs, 1, first - 1), 1, {}, t)]

\* failing: the records whose upsert fails with a storage error.
upsert_stats_batch(db, recs, failing, t) ==
    IF config.dry_run
    THEN [ok |-> TRUE, db |-> db]
    ELSE [ok |-> TRUE, db |-> UpsertStats(db, recs, 1, failing, t)]

\* ------------------------------------------------------------ DataPipeline
StripPlayers(tbl) == { [id |-> p.id, nfl_id |-> p.nfl_id, team_id |-> p.team_id] : p \in tbl }
StripGames(tbl) ==
    { [id |-> g.id, nfl_game_id |-> g.nfl_game_id, season |-> g.season, week |-> g.week,
       home_team_id |-> g.home_team_id, away_team_id |-> g.away_team_id,
       home_score |-> g.home_score, status |-> g.status] : g \in tbl }
StripStats(tbl) ==
    { [id |-> g.id, player_id |-> g.player_id, season |-> g.season, week |-> g.week,
       passing_yards |-> g.passing_yards] : g \in tbl }
StripProgress(tbl) ==
    { [season |-> e.season, data_type |-> e.data_type, status |-> e.status,
       records_imported |-> e.records_imported] : e \in tbl }

\* The store without its timestamps.
Stripped ==
    [players |-> StripPlayers(players), games |-> StripGames(games),
     game_stats |-> StripStats(game_stats), import_progress |-> StripProgress(import_progress)]

\* The storage failures the environment may still produce: a point of failure
\* in a batch of n roster records, a set of failing records in a stat batch.
FailPoints(n) == IF config.dry_run \/ faults >= fault_budget THEN {0} ELSE 0..n
FailSets(n) ==
    IF config.dry_run THEN { {} }
    ELSE { F \in SUBSET (1..n) : faults + Cardinality(F) <= fault_budget }

Entry(c, ok, n) == [cat |-> c, ok |-> ok, count |-> n]

\* `if year >= 2016` of import_year
ImportsNgs(y) == y >= NgsFirstYear

\* The category import_year turns to after category c; "none" after the last.
NextCategory(c, y) ==
    CASE c = "rosters" -> "player_stats"
      [] c = "player_stats" -> IF ImportsNgs(y) THEN "ngs_passing" ELSE "none"
      [] OTHER -> "none"

CategoryAborts(ok, n) ==
    /\ year_log' = Append(year_log, Entry(cat, ok, n))
    /\ cat' = IF ok THEN NextCategory(cat, year) ELSE "none"
    /\ pc' = IF ok /\ NextCategory(cat, year) # "none" THEN "begin" ELSE "year_done"
    /\ rows' = << >>
    /\ batch' = << >>
    /\ imported' = 0

\* A category import returns to import_year, whose `match` logs the result
\* and goes on to the next category.
CategoryReturns(ok, n) ==
    /\ year_log' = Append(year_log, Entry(cat, ok, n))
    /\ cat' = NextCategory(cat, year)
    /\ pc' = IF NextCategory(cat, year) = "none" THEN "year_done" ELSE "begin"
    /\ rows' = << >>
    /\ batch' = << >>
    /\ imported' = 0

\* import_year, entered
StartYear(y) ==
    /\ year' = y
    /\ cat' = "rosters"
    /\ pc' = "begin"
    /\ year_log' = << >>

\* What is kept of a finished operation: what it returned, the failures so
\* far and the store it left.
Done(o, y, res) ==
    [op |-> o, year |-> y, result |-> res, faults |-> faults, store |-> Stripped]

RangeSeqExclusive(a, b) == [i \in 1..(IF b > a THEN b - a ELSE 0) |-> a + i - 1]

\* `start_year..=end_year`
RangeSeq(a, b) == [i \in 1..(IF b >= a THEN b - a + 1 ELSE 0) |-> a + i - 1]

\* What an operation over these seasons takes of MaxCalls.
Cost(range) == IF range = << >> THEN 1 ELSE Len(range)

\* run_full_import: `for year in start_year..=end_year { match self.import_year(year) .. }`
run_full_import ==
    /\ config \in Configs
    /\ pc = "idle" /\ op = "none" /\ dl_state = "idle"
    /\ calls + Cost(RangeSeq(config.start_year, config.end_year)) <= call_budget
    /\ calls' = calls + Cost(RangeSeq(config.start_year, config.end_year))
    /\ now' = now + 1
    /\ LET range == RangeSeq(config.start_year, config.end_year)
       IN  IF range = << >>
           THEN /\ op_result' = "ok"
                /\ hist' = Append(hist, Done("full", 0, "ok"))
                /\ UNCHANGED <<pc, op, todo, year, cat, year_log>>
           ELSE /\ op' = "full"
                /\ todo' = Tail(range)
                /\ StartYear(Head(range))
                /\ op_result' = "none"
                /\ UNCHANGED hist
    /\ UNCHANGED <<config, rows, batch, imported, flushes, dlvars, dbvars, envvars>>

\* import_year(year), called as main's mode "year" does
import_year ==
    /\ config \in Configs
    /\ pc = "idle" /\ op = "none" /\ dl_state = "idle"
    /\ calls < call_budget
    /\ calls' = calls + 1
    /\ now' = now + 1
    /\ op' = "year"
    /\ \E y \in Years : StartYear(y)
    /\ op_result' = "none"
    /\ UNCHANGED <<config, todo, rows, batch, imported, flushes, hist,
                   dlvars, dbvars, envvars>>

\* chrono::Utc::now().year(): the latest of the seasons
CurrentYear == NgsFirstYear - 2 + MaxYears

\* run_update: import_year(chrono::Utc::now().year())?
run_update ==
    /\ config \in Configs
    /\ pc = "idle" /\ op = "none" /\ dl_state = "idle"
    /\ calls < call_budget
    /\ calls' = calls + 1
    /\ now' = now + 1
    /\ op' = "update"
    /\ StartYear(CurrentYear)
    /\ op_result' = "none"
    /\ UNCHANGED <<config, todo, rows, batch, imported, flushes, hist,
                   dlvars, dbvars, envvars>>

\* validate_data: the counts are read and logged; a failing query propagates.
validate_data ==
    /\ config \in Configs
    /\ pc = "idle" /\ op = "none" /\ dl_state = "idle"
    /\ \E failed \in BOOLEAN : op_result' = IF failed THEN "err" ELSE "ok"
    /\ UNCHANGED <<config, pc, op, todo, year, cat, rows, batch, imported, flushes,
                   year_log, calls, hist, now, dlvars, dbvars, envvars>>

\* import_year returns Ok(()) to its caller: the loop of run_full_import goes
\* on to the next season, the other callers return.
import_year_return ==
    /\ pc = "year_done"
    /\ op \in {"full", "year", "update"}
    /\ IF op = "full" /\ todo # << >>
       THEN /\ StartYear(Head(todo))
            /\ todo' = Tail(todo)
            /\ UNCHANGED <<op, op_result, hist>>
       ELSE /\ pc' = "idle"
            /\ op' = "none"
            /\ op_result' = "ok"
            /\ hist' = Append(hist, Done(op, IF op = "full" THEN 0 ELSE year, "ok"))
            /\ UNCHANGED <<todo, year, cat, year_log>>
    /\ UNCHANGED <<config, rows, batch, imported, flushes, calls, now,
                   dlvars, dbvars, envvars>>

\* import_rosters / import_player_stats / import_ngs_passing, up to the call
\* of self.downloader.download_*(year)
\* A category import that asks get_import_progress first and returns at
\* once for a category recorded as completed.
ImportBeginResumes ==
    /\ pc = "begin"
    /\ IF get_import_progress(import_progress, year, cat) = SomeStatus("completed")
       THEN /\ CategoryReturns(TRUE, 0)
            /\ UNCHANGED dlvars
       ELSE /\ download(cat, year)
            /\ pc' = "fetch"
            /\ UNCHANGED <<cat, rows, batch, imported, year_log>>
    /\ flushes' = << >>
    /\ UNCHANGED <<config, op, todo, year, op_result, calls, hist, now, dbvars, envvars>>

import_begin ==
    /\ pc = "begin"
    /\ download(cat, year)
    /\ pc' = "fetch"
    /\ flushes' = << >>
    /\ UNCHANGED <<config, op, todo, year, cat, rows, batch, imported, year_log,
                   op_result, calls, hist, now, dbvars, envvars>>

\* import_rosters / import_schedule / import_player_stats: `download_*(year)?`
\* and the reader
import_csv ==
    /\ pc = "fetch" /\ dl_state = "done"
    /\ cat \in {"rosters", "schedule", "player_stats"}
    /\ Returned
    /\ IF dl_result.ok
       THEN /\ rows' = dl_result.body
            /\ pc' = "rows"
            /\ batch' = << >>
            /\ imported' = 0
            /\ UNCHANGED <<cat, year_log>>
       ELSE CategoryReturns(FALSE, 0)
    /\ UNCHANGED <<config, op, todo, year, flushes, op_result, calls, hist, now,
                   dbvars, envvars>>

\* import_ngs_passing: `download_ngs_passing(year)?; Ok(0)`
import_ngs_passing ==
    /\ pc = "fetch" /\ dl_state = "done"
    /\ cat = "ngs_passing"
    /\ Returned
    /\ CategoryReturns(dl_result.ok, 0)
    /\ UNCHANGED <<config, op, todo, year, flushes, op_result, calls, hist, now,
                   dbvars, envvars>>

PushAny(b, r) == Append(b, r)

\* `match result { Ok(x) => { batch.push(x); .. } Err(e) => warn!(..) }`
Push(b, r) == IF r.ok THEN Append(b, r) ELSE b

IsRegularAny(r) == TRUE

\* `if game.game_type == "REG"`, `if stat.season_type == "REG"`
IsRegular(r) == r.kind = "REG"

BatchFullLate(b) == Len(b) > config.batch_size

\* `if batch.len() >= self.config.batch_size`
BatchFull(b) == Len(b) >= config.batch_size

\* import_rosters: one turn of `for result in reader.deserialize()`
import_rosters_row ==
    /\ pc = "rows" /\ cat = "rosters" /\ rows # << >>
    /\ LET r == Head(rows)
           b == Push(batch, r)
       IN  IF r.ok /\ BatchFull(b)
           THEN \E fail \in FailPoints(Len(b)) :
                  LET res == upsert_players_batch(Db, b, fail, now)
                  IN  /\ Store(res.db)
                      /\ flushes' = Append(flushes, Len(b))
                      /\ faults' = IF fail = 0 THEN faults ELSE faults + 1
                      /\ IF res.ok
                         THEN /\ imported' = imported + Len(b)
                              /\ batch' = << >>
                              /\ rows' = Tail(rows)
                              /\ UNCHANGED <<pc, cat, year_log>>
                         ELSE CategoryReturns(FALSE, 0)
           ELSE /\ batch' = b
                /\ rows' = Tail(rows)
                /\ UNCHANGED <<pc, cat, year_log, imported, flushes, dbvars, faults>>
    /\ UNCHANGED <<config, op, todo, year, op_result, calls, hist, now, games,
                   import_progress, dlvars, fault_budget, row_budget, call_budget>>

FinishMarksFailed(res, n, perr) ==
    /\ Store(res.db)
    /\ flushes' = IF batch = << >> THEN flushes ELSE Append(flushes, Len(batch))
    /\ IF ~res.ok
       THEN /\ CategoryReturns(FALSE, 0)
            /\ import_progress' =
                 mark_progress(import_progress, year, cat, "failed", 0, now)
       ELSE IF config.dry_run
       THEN /\ CategoryReturns(TRUE, n)
            /\ UNCHANGED import_progress
       ELSE IF perr
       THEN /\ CategoryReturns(FALSE, 0)
            /\ UNCHANGED import_progress
       ELSE /\ CategoryReturns(TRUE, n)
            /\ import_progress' =
                 mark_progress(import_progress, year, cat, "completed", AsI32(n), now)

\* The end of a category import: the remaining batch is flushed (res), then
\* `if !self.config.dry_run { self.database.mark_progress(..)?; }; Ok(imported)`.
\* perr: the progress statement fails with a storage error.
Finish(res, n, perr) ==
    /\ Store(res.db)
    /\ flushes' = IF batch = << >> THEN flushes ELSE Append(flushes, Len(batch))
    /\ IF ~res.ok
       THEN /\ CategoryReturns(FALSE, 0)
            /\ UNCHANGED import_progress
       ELSE IF config.dry_run
       THEN /\ CategoryReturns(TRUE, n)
            /\ UNCHANGED import_progress
       ELSE IF perr
       THEN /\ CategoryReturns(FALSE, 0)
            /\ UNCHANGED import_progress
       ELSE /\ CategoryReturns(TRUE, n)
            /\ import_progress' =
                 mark_progress(import_progress, year, cat, "completed", AsI32(n), now)

\* import_rosters after the last row
import_rosters_end ==
    /\ pc = "rows" /\ cat = "rosters" /\ rows = << >>
    /\ \E fail \in FailPoints(Len(batch)), perr \in BOOLEAN :
         LET res == IF batch = << >> THEN [ok |-> TRUE, db |-> Db]
                    ELSE upsert_players_batch(Db, batch, fail, now)
             used == (IF fail = 0 THEN 0 ELSE 1) + (IF perr THEN 1 ELSE 0)
         IN  /\ perr => (fail = 0 /\ ~config.dry_run)
             /\ faults + used <= fault_budget
             /\ faults' = faults + used
             /\ Finish(res, imported + Len(batch), perr)
    /\ UNCHANGED <<config, op, todo, year, op_result, calls, hist, now, games,
                   dlvars, fault_budget, row_budget, call_budget>>

\* import_player_stats: one turn of `for result in reader.deserialize()`
import_player_stats_row ==
    /\ pc = "rows" /\ cat = "player_stats" /\ rows # << >>
    /\ LET r == Head(rows)
           keep == r.ok /\ IsRegular(r)
           b == IF keep THEN Push(batch, r) ELSE batch
       IN  IF keep /\ BatchFull(b)
           THEN \E failing \in FailSets(Len(b)) :
                  LET res == upsert_stats_batch(Db, b, failing, now)
                  IN  /\ Store(res.db)
                      /\ flushes' = Append(flushes, Len(b))
                      /\ faults' = faults + Cardinality(failing)
                      /\ IF res.ok
                         THEN /\ imported' = imported + Len(b)
                              /\ batch' = << >>
                              /\ rows' = Tail(rows)
                              /\ UNCHANGED <<pc, cat, year_log>>
                         ELSE CategoryReturns(FALSE, 0)
           ELSE /\ batch' = b
                /\ rows' = Tail(rows)
                /\ UNCHANGED <<pc, cat, year_log, imported, flushes, dbvars, faults>>
    /\ UNCHANGED <<config, op, todo, year, op_result, calls, hist, now, games,
                   import_progress, dlvars, fault_budget, row_budget, call_budget>>

\* import_player_stats after the last row
import_player_stats_end ==
    /\ pc = "rows" /\ cat = "player_stats" /\ rows = << >>
    /\ \E failing \in FailSets(Len(batch)), perr \in BOOLEAN :
         LET res == IF batch = << >> THEN [ok |-> TRUE, db |-> Db]
                    ELSE upsert_stats_batch(Db, batch, failing, now)
             used == Cardinality(failing) + (IF perr THEN 1 ELSE 0)
         IN  /\ perr => ~config.dry_run
             /\ faults + used <= fault_budget
             /\ faults' = faults + used
             /\ Finish(res, imported + Len(batch), perr)
    /\ UNCHANGED <<config, op, todo, year, op_result, calls, hist, now, games,
                   dlvars, fault_budget, row_budget, call_budget>>

\* import_schedule(year), called alone: import_year does not call it.
import_schedule ==
    /\ config \in Configs
    /\ pc = "idle" /\ op = "none" /\ dl_state = "idle"
    /\ calls < call_budget
    /\ calls' = calls + 1
    /\ now' = now + 1
    /\ op' = "schedule"
    /\ \E y \in Years : year' = y
    /\ cat' = "schedule"
    /\ pc' = "begin"
    /\ year_log' = << >>
    /\ op_result' = "none"
    /\ UNCHANGED <<config, todo, rows, batch, imported, flushes, hist,
                   dlvars, dbvars, envvars>>

\* import_schedule: one turn of `for result in reader.deserialize()`
import_schedule_row ==
    /\ pc = "rows" /\ cat = "schedule" /\ rows # << >>
    /\ LET r == Head(rows)
           keep == r.ok /\ IsRegular(r)
           b == IF keep THEN Push(batch, r) ELSE batch
       IN  IF keep /\ BatchFull(b)
           THEN \E fail \in FailPoints(Len(b)) :
                  LET res == upsert_games_batch(Db, b, fail, now)
                  IN  /\ Store(res.db)
                      /\ flushes' = Append(flushes, Len(b))
                      /\ faults' = IF fail = 0 THEN faults ELSE faults + 1
                      /\ IF res.ok
                         THEN /\ imported' = imported + Len(b)
                              /\ batch' = << >>
                              /\ rows' = Tail(rows)
                              /\ UNCHANGED <<pc, cat, year_log>>
                         ELSE CategoryReturns(FALSE, 0)
           ELSE /\ batch' = b
                /\ rows' = Tail(rows)
                /\ UNCHANGED <<pc, cat, year_log, imported, flushes, dbvars, faults>>
    /\ UNCHANGED <<config, op, todo, year, op_result, calls, hist, now,
                   import_progress, dlvars, fault_budget, row_budget, call_budget>>

\* import_schedule after the last row
import_schedule_end ==
    /\ pc = "rows" /\ cat = "schedule" /\ rows = << >>
    /\ \E fail \in FailPoints(Len(batch)), perr \in BOOLEAN :
         LET res == IF batch = << >> THEN [ok |-> TRUE, db |-> Db]
                    ELSE upsert_games_batch(Db, batch, fail, now)
             used == (IF fail = 0 THEN 0 ELSE 1) + (IF perr THEN 1 ELSE 0)
         IN  /\ perr => (fail = 0 /\ ~config.dry_run)
             /\ faults + used <= fault_budget
             /\ faults' = faults + used
             /\ Finish(res, imported + Len(batch), perr)
    /\ UNCHANGED <<config, op, todo, year, op_result, calls, hist, now,
                   dlvars, fault_budget, row_budget, call_budget>>

\* import_schedule returns Ok(imported) or Err(e) to its caller.
import_schedule_return ==
    /\ pc = "year_done" /\ op = "schedule"
    /\ pc' = "idle"
    /\ op' = "none"
    /\ op_result' = IF year_log[1].ok THEN "ok" ELSE "err"
    /\ hist' = Append(hist, Done(op, year, IF year_log[1].ok THEN "ok" ELSE "err"))
    /\ UNCHANGED <<config, todo, year, cat, year_log, rows, batch, imported, flushes,
                   calls, now, dlvars, dbvars, envvars>>

\* ------------------------------------------------------------------- specs
InitCommon ==
    /\ dl_state = "idle"
    /\ dl_url = NoUrl
    /\ attempt = 0
    /\ last_error = NoError
    /\ dl_result = NoResult
    /\ net = << >>
    /\ pc = "idle"
    /\ op = "none"
    /\ todo = << >>
    /\ year = 0
    /\ cat = "none"
    /\ rows = << >>
    /\ batch = << >>
    /\ imported = 0
    /\ flushes = << >>
    /\ year_log = << >>
    /\ op_result = "none"
    /\ calls = 0
    /\ hist = << >>
    /\ faults = 0
    /\ players = {}
    /\ games = {}
    /\ game_stats = {}
    /\ import_progress = {}
    /\ next_uuid = 1
    /\ now = 0

\* DataPipeline::new(config) on a fresh store
Init ==
    /\ InitCommon
    /\ config \in Configs
    /\ max_retries = config.max_retries
    /\ fault_budget = MaxFaults
    /\ row_budget = MaxRows
    /\ call_budget = MaxCalls
    /\ docs = [u \in Urls |-> UnknownDoc]

Next ==
    \/ run_full_import
    \/ import_year
    \/ run_update
    \/ validate_data
    \/ import_year_return
    \/ import_begin
    \/ import_csv
    \/ import_ngs_passing
    \/ import_rosters_row
    \/ import_rosters_end
    \/ import_player_stats_row
    \/ import_player_stats_end
    \/ Attempt
    \/ Backoff

Spec == Init /\ [][Next]_vars

\* One season import, with longer documents
InitBatch ==
    /\ InitCommon
    /\ config \in Configs
    /\ max_retries = config.max_retries
    /\ fault_budget = MaxFaults
    /\ row_budget = MaxRows + 1
    /\ call_budget = 1
    /\ docs = [u \in Urls |-> UnknownDoc]

BatchSpec == InitBatch /\ [][Next]_vars

\* One season import, with more failures
InitFault ==
    /\ InitCommon
    /\ config \in Configs
    /\ max_retries = config.max_retries
    /\ fault_budget = MaxFaults + 2
    /\ row_budget = MaxRows
    /\ call_budget = 1
    /\ docs = [u \in Urls |-> UnknownDoc]

FaultSpec == InitFault /\ [][Next]_vars

\* The pipeline's operations and import_schedule
NextAll ==
    \/ Next
    \/ import_schedule
    \/ import_schedule_row
    \/ import_schedule_end
    \/ import_schedule_return

\* A pipeline whose callers reach import_schedule too
InitStore ==
    /\ InitCommon
    /\ config \in Configs
    /\ max_retries = config.max_retries
    /\ fault_budget = MaxFaults
    /\ row_budget = MaxRows
    /\ call_budget = MaxCalls
    /\ docs = [u \in Urls |-> UnknownDoc]

StoreSpec == InitStore /\ [][NextAll]_vars

\* run_full_import and what it calls
NextRange ==
    \/ run_full_import
    \/ import_year_return
    \/ import_begin
    \/ import_csv
    \/ import_ngs_passing
    \/ import_rosters_row
    \/ import_rosters_end
    \/ import_player_stats_row
    \/ import_player_stats_end
    \/ Attempt
    \/ Backoff

\* A pipeline in mode "full" whose thread is never stopped, with short
\* documents
InitRange ==
    /\ InitCommon
    /\ config \in Configs
    /\ max_retries = config.max_retries
    /\ fault_budget = MaxFaults
    /\ row_budget = MaxRows - 1
    /\ call_budget = MaxYears
    /\ docs = [u \in Urls |-> UnknownDoc]

RangeSpec == InitRange /\ [][NextRange]_vars /\ WF_vars(NextRange)

\* Downloader::new(max_retries), its download_* methods called directly
InitFetch ==
    /\ InitCommon
    /\ config = NoConfig
    /\ max_retries \in 0..MaxRetries
    /\ fault_budget = MaxRetries + 1
    /\ row_budget = MaxRows
    /\ call_budget = 0
    /\ \E d \in SeqsUpTo({BadRow}, 1) : docs = [u \in Urls |-> KnownDoc(d)]

NextFetch ==
    \/ DirectCall
    \/ DirectReturn
    \/ Attempt
    \/ Backoff

\* The thread is never stopped: a request ends (the client's timeout is 60s),
\* a sleep ends.
FetchSpec == InitFetch /\ [][NextFetch]_vars /\ WF_vars(NextFetch)

\* A pipeline, or a Downloader called alone
ApiSpec == (InitFault \/ InitFetch) /\ [][Next \/ DirectCall \/ DirectReturn]_vars

\* --------------------------------------------------- Database, called alone
\* A caller of the public progress methods of Database, outside any pipeline.
mark_progress_call ==
    /\ config = NoConfig /\ pc = "idle" /\ op = "none"
    /\ calls < call_budget
    /\ \E season \in Years, data_type \in {"rosters", "player_stats"},
          status \in {"in_progress", "completed", "failed"}, n \in 0..1 :
          /\ import_progress' =
                 mark_progress(import_progress, season, data_type, status, n, now + 1)
          /\ hist' = Append(hist, [op |-> "mark_progress", season |-> season,
                                   data_type |-> data_type, status |-> status, n |-> n,
                                   result |-> NoStatus, before |-> import_progress,
                                   after |-> import_progress'])
    /\ now' = now + 1
    /\ calls' = calls + 1
    /\ UNCHANGED <<config, pc, op, todo, year, cat, rows, batch, imported, flushes,
                   year_log, op_result, players, games, game_stats, next_uuid,
                   dlvars, envvars>>

get_import_progress_call ==
    /\ config = NoConfig /\ pc = "idle" /\ op = "none"
    /\ calls < call_budget
    /\ \E season \in Years, data_type \in {"rosters", "player_stats"} :
          hist' = Append(hist, [op |-> "get_import_progress", season |-> season,
                                data_type |-> data_type, status |-> "", n |-> 0,
                                result |-> get_import_progress(import_progress, season,
                                                               data_type),
                                before |-> import_progress, after |-> import_progress])
    /\ now' = now + 1
    /\ calls' = calls + 1
    /\ UNCHANGED <<config, pc, op, todo, year, cat, rows, batch, imported, flushes,
                   year_log, op_result, dbvars, dlvars, envvars>>

\* Database::new on an empty import_progress table
InitDb ==
    /\ InitCommon
    /\ config = NoConfig
    /\ max_retries = 0
    /\ fault_budget = 0
    /\ row_budget = 0
    /\ call_budget = MaxCalls + 1
    /\ docs = [u \in Urls |-> UnknownDoc]

NextDb ==
    \/ mark_progress_call
    \/ get_import_progress_call

DbSpec == InitDb /\ [][NextDb]_vars

\* ------------------------------- validator and transformer, called alone
\* A caller of the public functions of the two modules: hist keeps the
\* argument and the value returned.
LibCall(f, arg, result) ==
    /\ config = NoConfig /\ pc = "idle" /\ op = "none"
    /\ calls < call_budget
    /\ hist' = Append(hist, [op |-> f, arg |-> arg, result |-> result])
    /\ calls' = calls + 1
    /\ UNCHANGED <<config, pc, op, todo, year, cat, rows, batch, imported, flushes,
                   year_log, op_result, now, dbvars, dlvars, envvars>>

validate_player_call ==
    \E gsis_id \in {"", "P1"}, full_name \in {"", "Al"}, team \in {"", "KC"},
       position \in {"", "QB", "XX"}, season \in {1850, 1998, 1999, 2030, 2031},
       height \in {<<"None", << >> >>, <<"Some", <<"6", "-", "3">> >>,
                   <<"Some", <<"7", "5">> >>},
       weight \in {<<"None", 0>>, <<"Some", 149>>, <<"Some", 230>>, <<"Some", 500>>} :
        LET player == [gsis_id |-> gsis_id, full_name |-> full_name, team |-> team,
                       position |-> position, season |-> season, height |-> height,
                       weight |-> weight]
        IN  LibCall("validate_player", player, validate_player(player))

validate_game_call ==
    \E game_id \in {"", "G1"}, home_team \in {"", "KC"}, away_team \in {"", "LA"},
       gameday \in {"", "day"}, season \in {1998, 1999, 2030, 2031},
       week \in {0, 1, 22, 23}, game_type \in {"REG", "XX"},
       home_score \in {<<"None", 0>>, <<"Some", 20>>, <<"Some", 101>>},
       away_score \in {<<"Some", 0>>, <<"Some", -1>>} :
        LET game == [game_id |-> game_id, home_team |-> home_team,
                     away_team |-> away_team, gameday |-> gameday, season |-> season,
                     week |-> week, game_type |-> game_type, home_score |-> home_score,
                     away_score |-> away_score]
        IN  LibCall("validate_game", game, validate_game(game))

validate_stat_call ==
    \E player_id \in {"", "P1"}, season \in {1998, 1999, 2030, 2031},
       week \in {0, 1, 22, 23}, season_type \in {"REG", "XX"},
       passing_yards \in {<<"None", 0>>, <<"Some", 300>>, <<"Some", 601>>},
       rushing_yards \in {<<"Some", -20>>, <<"Some", -21>>},
       receiving_yards \in {<<"None", 0>>, <<"Some", 301>>} :
        LET stat == [player_id |-> player_id, season |-> season, week |-> week,
                     season_type |-> season_type, passing_yards |-> passing_yards,
                     rushing_yards |-> rushing_yards,
                     receiving_yards |-> receiving_yards]
        IN  LibCall("validate_stat", stat, validate_stat(stat))

normalize_team_abbr_call ==
    \E abbr \in DOMAIN TEAM_MAPPING \cup
                {"stl", "Stl", "sd", "oak", "sl", "blt", "clv", "hst", "arz",
                 "KC", "kc", "Kc", "GB", "gb", "LA", ""} :
        LibCall("normalize_team_abbr", abbr, normalize_team_abbr(abbr))

\* The names: a base of up to two characters, or "Al I", then a suffix.
clean_player_name_call ==
    \E base \in SeqsUpTo({"A", "I", " "}, 2) \cup { <<"A", "l", " ", "I">> },
       i \in DOMAIN Suffixes :
        LibCall("clean_player_name", [base |-> base, suffix |-> Suffixes[i]],
                clean_player_name(base \o Suffixes[i]))

InitLib ==
    /\ InitCommon
    /\ config = NoConfig
    /\ max_retries = 0
    /\ fault_budget = 0
    /\ row_budget = 0
    /\ call_budget = 1
    /\ docs = [u \in Urls |-> UnknownDoc]

NextLib ==
    \/ validate_player_call
    \/ validate_game_call
    \/ validate_stat_call
    \/ normalize_team_abbr_call
    \/ clean_player_name_call

LibSpec == InitLib /\ [][NextLib]_vars

\* ------------------------------------------------------------- observations
IsGet(e) == e.ev = "GET"
IsSleep(e) == e.ev = "sleep"
Gets(log) == SelectSeq(log, IsGet)
SleepSecs(log) == [i \in 1..Len(SelectSeq(log, IsSleep)) |-> SelectSeq(log, IsSleep)[i].secs]

\* A failure of an attempt that is not a 404: a send error, a status that is
\* neither a success nor 404, or an error while the body is read.
FailsTransiently(r) ==
    \/ ~r.sent
    \/ r.sent /\ ~is_success(r.status) /\ r.status # 404
    \/ r.sent /\ is_success(r.status) /\ ~r.body

\* The failures after which download_with_retry goes on: a send error or a
\* status that is neither a success nor 404.
FailsBeforeBody(r) == ~r.sent \/ (~is_success(r.status) /\ r.status # 404)

Is404(r) == r.sent /\ r.status = 404

RostersDoc == docs[[cat |-> "rosters", year |-> year]].rows
AllParse(d) == \A i \in 1..Len(d) : d[i].ok

\* import_rosters has just returned to import_year: `flushes` is still its own.
RostersReturned == pc = "begin" /\ cat = "player_stats" /\ Len(year_log) = 1

ProgressIs(season, data_type, status, n) ==
    \E e \in import_progress :
        /\ e.season = season /\ e.data_type = data_type
        /\ e.status = status /\ e.records_imported = n

\* ceil(N/B) batches: B records each, the last one the remainder
ExpectedFlushes(N, B) ==
    [i \in 1..((N + B - 1) \div B) |-> IF i * B <= N THEN B ELSE N - (i - 1) * B]

ExpectedCats(y) ==
    IF y >= 2016 THEN <<"rosters", "player_stats", "ngs_passing">>
    ELSE <<"rosters", "player_stats">>

CatsOf(log) == [i \in 1..Len(log) |-> log[i].cat]

IsPrefix(a, b) == Len(a) <= Len(b) /\ \A i \in 1..Len(a) : a[i] = b[i]

\* ------------------------------------------------------------------ claims

\* C1: two import_year calls for the same season in succession, non-dry-run,
\* against a fresh store, with the same documents and no failure: the second
\* leaves players, game_stats and import_progress with the same rows and the
\* same non-timestamp values as the first.
C1_ImportIdempotent ==
    ( /\ Len(hist) = 2
      /\ ~config.dry_run
      /\ hist[1].op = "year" /\ hist[2].op = "year"
      /\ hist[1].year = hist[2].year
      /\ hist[2].faults = 0 )
    => hist[2].store = hist[1].store

C1_Witness ==
    /\ Len(hist) = 2
    /\ ~config.dry_run
    /\ hist[1].op = "year" /\ hist[2].op = "year"
    /\ hist[1].year = hist[2].year
    /\ hist[2].faults = 0
    /\ hist[1].store.players # {}
    /\ hist[1].store.game_stats # {}
    /\ Cardinality(hist[2].store.import_progress) = 2

\* C2 as stated: for a roster document of N rows that all parse, a successful
\* import_rosters flushed ceil(N/B) batches of B, .., B, remainder records,
\* returned N, and recorded (season, 'rosters', 'completed', N).
C2_BatchingAndProgress ==
    (RostersReturned /\ year_log[1].ok /\ AllParse(RostersDoc))
    => /\ flushes = ExpectedFlushes(Len(RostersDoc), config.batch_size)
       /\ year_log[1].count = Len(RostersDoc)
       /\ ProgressIs(year, "rosters", "completed", Len(RostersDoc))

\* C2, amended: the same, the progress entry being recorded in a non-dry run.
C2_BatchingAndProgressUnlessDry ==
    (RostersReturned /\ year_log[1].ok /\ AllParse(RostersDoc))
    => /\ flushes = ExpectedFlushes(Len(RostersDoc), config.batch_size)
       /\ year_log[1].count = Len(RostersDoc)
       /\ ~config.dry_run => ProgressIs(year, "rosters", "completed", Len(RostersDoc))

C2_Witness ==
    /\ RostersReturned /\ year_log[1].ok /\ AllParse(RostersDoc)
    /\ ~config.dry_run
    /\ Len(RostersDoc) = 3 /\ config.batch_size = 2
    /\ flushes = <<2, 1>>
    /\ ProgressIs(year, "rosters", "completed", 3)

\* C3: a fetch returns after an attempt that failed transiently (a status
\* other than success and 404, or a transport error while sending or while
\* reading the body) only when max_retries attempts have been made.
C3_TransientRetried ==
    (dl_state = "done" /\ net # << >> /\ FailsTransiently(net[Len(net)].resp))
    => Len(Gets(net)) = max_retries

\* C4: an attempt answered 404 is the last event of its fetch, which has
\* returned the not-found error: no request and no delay follows it.
C4_NotFoundPermanent ==
    \A i \in 1..Len(net) :
        (IsGet(net[i]) /\ Is404(net[i].resp))
        => /\ i = Len(net)
           /\ dl_state = "done"
           /\ dl_result = ErrResult(NotFoundError)

C4_Witness ==
    /\ dl_state = "done"
    /\ Len(net) = 3
    /\ Is404(net[3].resp)
    /\ net[3].attempt < max_retries

\* C5: no GET for a next-gen-stats document of a season before 2016 is ever
\* issued: download_ngs_* for such a season has returned an error with no
\* request and no delay, and import_year never turns to a next-gen-stats
\* category of such a season.
C5_NoNgsBefore2016 ==
    /\ \A i \in 1..Len(net) : net[i].url.cat \in NgsCategories => net[i].url.year >= 2016
    /\ (dl_url.cat \in NgsCategories /\ dl_url.year < 2016)
       => (dl_state = "done" /\ ~dl_result.ok /\ net = << >>)
    /\ cat \in NgsCategories => year >= 2016
    /\ (\E i \in 1..Len(year_log) : year_log[i].cat \in NgsCategories) => year >= 2016

C5_Witness ==
    /\ dl_state = "done"
    /\ dl_url = [cat |-> "ngs_rushing", year |-> 2015]
    /\ ~dl_result.ok
    /\ net = << >>

\* C6: the events of a fetch alternate GET, sleep, GET, ..: the k-th delay
\* follows the k-th attempt, which failed and was not the last one allowed,
\* and lasts 2^k seconds; a fetch that has returned ends with a GET.  So two
\* transient failures and a success give the document after 2s and 4s.
C6_BackoffSchedule ==
    /\ \A i \in 1..Len(net) :
          /\ IsGet(net[i]) <=> i % 2 = 1
          /\ net[i].attempt = (i + 1) \div 2
          /\ IsSleep(net[i]) =>
                /\ net[i].secs = Pow(2, net[i].attempt)
                /\ net[i].attempt < max_retries
                /\ FailsBeforeBody(net[i - 1].resp)
    /\ dl_state = "done" => Len(net) % 2 = 1 \/ net = << >>
    /\ (dl_state = "done" /\ dl_result.ok /\ Len(Gets(net)) = 3) => SleepSecs(net) = <<2, 4>>

C6_Witness ==
    /\ dl_state = "done"
    /\ dl_result.ok
    /\ dl_result.body # << >>
    /\ Len(Gets(net)) = 3
    /\ SleepSecs(net) = <<2, 4>>

C8_DryRunLeavesNoTrace ==
    [][config.dry_run => UNCHANGED <<players, games, game_stats, import_progress>>]_vars

C8_Witness ==
    /\ config.dry_run
    /\ Len(hist) >= 1
    /\ hist[1].op \in {"full", "year", "update"}
    /\ Len(year_log) >= 2
    /\ year_log[1].ok /\ year_log[1].count > 0
    /\ year_log[2].ok /\ year_log[2].count > 0
    /\ players = {} /\ import_progress = {}

\* C9: with dry_run set, every category import reports a written count of 0.
C9_DryRunReportsZero ==
    config.dry_run => \A i \in 1..Len(year_log) : year_log[i].count = 0

\* C10: whatever failed, import_year turns to every category of the season in
\* order, and every import operation returns success.
C10_CategoryFaultIsolation ==
    /\ pc # "idle" => IsPrefix(CatsOf(year_log), ExpectedCats(year))
    /\ pc = "year_done" => CatsOf(year_log) = ExpectedCats(year)
    /\ \A i \in 1..Len(hist) : hist[i].result = "ok"

C10_Witness ==
    /\ pc = "year_done"
    /\ Len(year_log) = 3
    /\ \A i \in 1..3 : ~year_log[i].ok

\* A category import has just returned to import_year, with this result.
CategoryReturned == Len(year_log') = Len(year_log) + 1
LastEntry(log) == log[Len(log)]

\* C11: a step in which a category import returns a failure leaves
\* import_progress as it was; import_progress changes only in a step in which
\* a category import returns success, and then only in the entry of that
\* season and category; every entry has the status 'completed'.
C11_ProgressOnlyCompleted ==
    /\ [](\A e \in import_progress : e.status = "completed")
    /\ [][(CategoryReturned /\ ~LastEntry(year_log').ok) => UNCHANGED import_progress]_vars
    /\ [][import_progress' # import_progress =>
            /\ CategoryReturned
            /\ LastEntry(year_log').ok
            /\ \A e \in import_progress :
                  (e.season # year \/ e.data_type # LastEntry(year_log').cat)
                  => e \in import_progress']_vars

C11_Witness ==
    /\ Len(hist) = 1 /\ hist[1].op = "year" /\ hist[1].year = year
    /\ op = "year"
    /\ Len(year_log) = 1
    /\ ~year_log[1].ok
    /\ flushes # << >>
    /\ \E e \in import_progress :
          /\ e.season = year /\ e.data_type = "rosters"
          /\ e.status = "completed" /\ e.records_imported = 1

\* C12: while run_full_import runs, the season being imported and the seasons
\* still to import are the rest of start_year..end_year; it starts with
\* start_year, goes from a season to the next one only when import_year has
\* returned, returns only after end_year, and returns success; with
\* start_year > end_year it returns success at once and imports nothing; and
\* a run that has started returns.
C12_SeasonRange ==
    /\ [](op = "full" =>
            /\ config.start_year <= year /\ year <= config.end_year
            /\ todo = [i \in 1..(config.end_year - year) |-> year + i])
    /\ [][(op # "full" /\ op' = "full") => (year' = config.start_year /\ pc' = "begin")]_vars
    /\ [][(op = "full" /\ op' = "full" /\ (year' # year \/ pc = "year_done"))
            => (pc = "year_done" /\ pc' = "begin" /\ year' = year + 1)]_vars
    /\ [][(op = "full" /\ op' # "full")
            => (pc = "year_done" /\ year = config.end_year /\ op_result' = "ok")]_vars
    /\ [][(Len(hist') > Len(hist) /\ LastEntry(hist').op = "full"
              /\ config.start_year > config.end_year)
            => /\ op = "none" /\ pc' = "idle" /\ dl_state' = "idle"
               /\ UNCHANGED <<players, games, game_stats, import_progress>>]_vars
    /\ [](\A i \in 1..Len(hist) : hist[i].op = "full" => hist[i].result = "ok")
    /\ (op = "full" ~> op = "none")

C12_Witness ==
    /\ Len(hist) = 1 /\ hist[1].op = "full" /\ hist[1].result = "ok"
    /\ hist[1].faults > 0
    /\ ~ProgressIs(config.start_year, "rosters", "completed", 0)
    /\ ~ProgressIs(config.start_year, "rosters", "completed", 1)
    /\ \E n \in 0..1 : ProgressIs(config.start_year, "player_stats", "completed", n)
    /\ \A y \in config.start_year + 1..config.end_year :
          \E n \in 0..1 : ProgressIs(y, "rosters", "completed", n)
    /\ config.start_year < config.end_year

\* The place of a category in the order rosters, schedule, player stats,
\* next-gen stats.
Rank(c) ==
    CASE c = "rosters" -> 1
      [] c = "schedule" -> 2
      [] c = "player_stats" -> 3
      [] OTHER -> 4

\* C13: the categories a season import has processed are in the order
\* rosters, schedule, player stats, next-gen stats, none twice; the category
\* in progress comes after all of them; and a season import that has
\* finished has processed the schedule between rosters and player stats.
C13_CategoryOrder ==
    (op \in {"full", "year", "update"}) =>
        /\ \A i, j \in 1..Len(year_log) :
              i < j => Rank(year_log[i].cat) < Rank(year_log[j].cat)
        /\ pc \in {"begin", "fetch", "rows"} =>
              \A i \in 1..Len(year_log) : Rank(year_log[i].cat) < Rank(cat)
        /\ pc = "year_done" =>
              \E i \in 1..Len(year_log) : year_log[i].cat = "schedule"

TeamIdOf(abbr) == get_team_id_by_abbr(normalize_team_abbr(abbr))

\* C14: whatever the store holds, an upsert of a record whose natural key is
\* already stored leaves that row with the values of the record in every
\* field but id and created_at - for players (team), for games (season,
\* week, teams, score) and for game_stats (passing yards).
C14_UpsertOverwrites ==
    /\ \A r \in RosterRows :
          (r.ok /\ \E p \in players : p.nfl_id = r.id) =>
            \A p \in upsert_player(Db, r, now).players :
                p.nfl_id = r.id => (p.team_id = TeamIdOf(r.team) /\ p.updated_at = now)
    /\ \A y \in Years : \A g \in GameRows(y) :
          (/\ g.ok
           /\ TeamIdOf(g.home) # Null /\ TeamIdOf(g.away) # Null
           /\ \E x \in games : x.nfl_game_id = g.id) =>
            \A x \in upsert_game(Db, g, now).games :
                x.nfl_game_id = g.id =>
                    /\ x.season = g.season /\ x.week = g.week
                    /\ x.home_team_id = TeamIdOf(g.home)
                    /\ x.away_team_id = TeamIdOf(g.away)
                    /\ x.home_score = g.home_score
                    /\ x.updated_at = now
    /\ \A y \in Years : \A r \in StatRows(y) :
          (r.ok /\ get_player_id_by_nfl_id(players, r.id) # Null) =>
            \A x \in upsert_stat(Db, r, now).game_stats :
                (/\ x.player_id = get_player_id_by_nfl_id(players, r.id)
                 /\ x.season = r.season /\ x.week = r.week) =>
                    (x.passing_yards = r.yards /\ x.updated_at = now)

\* Every row of tbl is still there after the step, with its id and its
\* created_at.
Kept(tbl, tbl2) ==
    \A x \in tbl : \E z \in tbl2 : z.id = x.id /\ z.created_at = x.created_at

PlayerKey(p) == p.nfl_id
GameKey(g) == g.nfl_game_id
StatKey(g) == <<g.player_id, g.season, g.week>>

\* C15: no step removes a row of players, games or game_stats or changes its
\* id, natural key or created_at, and each table holds at most one row per
\* natural key and per id.
C15_IdentityPreserved ==
    /\ [](/\ \A x, z \in players :
                (PlayerKey(x) = PlayerKey(z) \/ x.id = z.id) => x = z
          /\ \A x, z \in games :
                (GameKey(x) = GameKey(z) \/ x.id = z.id) => x = z
          /\ \A x, z \in game_stats :
                (StatKey(x) = StatKey(z) \/ x.id = z.id) => x = z)
    /\ [][/\ Kept(players, players')
          /\ Kept(games, games')
          /\ Kept(game_stats, game_stats')
          /\ \A x \in players : \A z \in players' :
                z.id = x.id => PlayerKey(z) = PlayerKey(x)
          /\ \A x \in games : \A z \in games' :
                z.id = x.id => GameKey(z) = GameKey(x)
          /\ \A x \in game_stats : \A z \in game_stats' :
                z.id = x.id => StatKey(z) = StatKey(x)]_vars

C15_Witness ==
    /\ \E p \in players : p.updated_at > p.created_at
    /\ \E g \in game_stats : g.updated_at > g.created_at /\ g.passing_yards = 20

\* The batch a flushing step hands to upsert_*_batch, and such a step.
FlushedBatch == IF rows # << >> THEN Append(batch, Head(rows)) ELSE batch
Flushing == pc = "rows" /\ Len(flushes') = Len(flushes) + 1

GameResolves(g) == TeamIdOf(g.home) # Null /\ TeamIdOf(g.away) # Null
StatResolves(r) == get_player_id_by_nfl_id(players, r.id) # Null

\* C16: every stored game references two teams and every stored stat a
\* player; and a flush of a games or stats batch in which no statement
\* fails writes every record that resolves, writes no record that does not,
\* and the import goes on (to the next row, or to a successful return).
C16_IntegrityByOmission ==
    /\ [](/\ \A g \in games : \E h, a \in teams :
                h.id = g.home_team_id /\ a.id = g.away_team_id
          /\ \A g \in game_stats : \E p \in players : p.id = g.player_id)
    /\ [][(Flushing /\ ~config.dry_run /\ faults' = faults
            /\ cat \in {"schedule", "player_stats"}) =>
            /\ rows # << >> => pc' = "rows"
            /\ rows = << >> => LastEntry(year_log').ok
            /\ cat = "schedule" =>
                 \A i \in 1..Len(FlushedBatch) :
                    GameResolves(FlushedBatch[i]) <=>
                        \E g \in games' : g.nfl_game_id = FlushedBatch[i].id
            /\ cat = "player_stats" =>
                 \A i \in 1..Len(FlushedBatch) :
                    StatResolves(FlushedBatch[i]) <=>
                        \E g \in game_stats' :
                            /\ g.player_id = get_player_id_by_nfl_id(players, FlushedBatch[i].id)
                            /\ g.season = FlushedBatch[i].season
                            /\ g.week = FlushedBatch[i].week]_vars

C16_Witness ==
    /\ op = "schedule" /\ pc = "year_done"
    /\ ~config.dry_run
    /\ year_log[1].ok /\ year_log[1].count = 2
    /\ flushes = <<2>>
    /\ ~GameResolves(docs[[cat |-> "schedule", year |-> year]].rows[1])
    /\ \E g \in games : g.nfl_game_id = <<"G1", year>>
    /\ Cardinality(games) = 1

\* The records of the flushed stats batch that resolve and have no row after
\* the step.
MissingStats ==
    { i \in 1..Len(FlushedBatch) :
        /\ StatResolves(FlushedBatch[i])
        /\ ~\E g \in game_stats' :
              /\ g.player_id = get_player_id_by_nfl_id(players, FlushedBatch[i].id)
              /\ g.season = FlushedBatch[i].season
              /\ g.week = FlushedBatch[i].week }

\* C17: at a flush of a stats batch at most as many resolving records are
\* left unwritten as statements failed, and a flush before the end of the
\* document is followed by the next row with the whole batch counted; an
\* import_player_stats that returned success in a non-dry run has recorded
\* its progress entry.
C17_StatWritesBestEffort ==
    /\ [][(Flushing /\ cat = "player_stats" /\ ~config.dry_run) =>
            /\ Cardinality(MissingStats) <= faults' - faults
            /\ rows # << >> =>
                 (pc' = "rows" /\ imported' = imported + Len(FlushedBatch))]_vars
    /\ []((/\ ~config.dry_run /\ op # "none"
            /\ Len(year_log) >= 2 /\ year_log[2].ok)
           => ProgressIs(year, "player_stats", "completed", year_log[2].count))

C17_Witness ==
    /\ ~config.dry_run /\ op # "none"
    /\ Len(year_log) >= 2 /\ year_log[2].ok /\ year_log[2].count = 2
    /\ ProgressIs(year, "player_stats", "completed", 2)
    /\ faults = 1
    /\ LET d == docs[[cat |-> "player_stats", year |-> year]].rows
       IN  /\ Len(d) = 2
           /\ d[1].ok /\ d[2].ok /\ IsRegular(d[1]) /\ IsRegular(d[2])
           /\ StatResolves(d[1]) /\ StatResolves(d[2])
           /\ d[1].season # d[2].season
    /\ Cardinality(game_stats) = 1

\* The parsed record of a row of the model: the fields the pipeline does not
\* read hold valid values.
PlayerOf(r) ==
    [gsis_id |-> r.id, full_name |-> "Al", team |-> r.team, position |-> "QB",
     season |-> FirstYear, height |-> <<"None", << >> >>, weight |-> <<"None", 0>>]
GameOf(g) ==
    [game_id |-> g.id, home_team |-> g.home, away_team |-> g.away, gameday |-> "day",
     season |-> g.season, week |-> g.week, game_type |-> g.kind,
     home_score |-> <<"Some", g.home_score>>, away_score |-> <<"None", 0>>]
StatOf(r) ==
    [player_id |-> r.id, season |-> r.season, week |-> r.week, season_type |-> r.kind,
     passing_yards |-> <<"Some", r.yards>>, rushing_yards |-> <<"None", 0>>,
     receiving_yards |-> <<"None", 0>>]

\* C18: no row of a source document that fails hard validation has a row in
\* the store.
C18_InvalidNeverPersisted ==
    /\ \A r \in RosterRows :
          (r.ok /\ ~validate_player(PlayerOf(r)).ok) => ~\E p \in players : p.nfl_id = r.id
    /\ \A y \in Years : \A g \in GameRows(y) :
          (g.ok /\ ~validate_game(GameOf(g)).ok) => ~\E x \in games : x.nfl_game_id = g.id
    /\ \A y \in Years : \A r \in StatRows(y) :
          (r.ok /\ ~validate_stat(StatOf(r)).ok) =>
            ~\E x \in game_stats :
                /\ x.player_id = get_player_id_by_nfl_id(players, r.id)
                /\ x.season = r.season /\ x.week = r.week

\* The rows of document d that parse and are of the regular season.
RegularRows(d) == { i \in 1..Len(d) : d[i].ok /\ d[i].kind = "REG" }
DocOf(c) == docs[[cat |-> c, year |-> year]].rows

\* C19: in import_schedule and import_player_stats a parsed row that is not
\* 'REG' changes neither the batch, the count nor the store, and a parsed
\* 'REG' row is added to the batch (which may be flushed at once); a batch
\* holds 'REG' rows only; no row of the store comes from a row that is not
\* 'REG'; and the count returned is the number of parsed 'REG' rows.
C19_OnlyRegularSeason ==
    /\ [][(pc = "rows" /\ rows # << >> /\ cat \in {"schedule", "player_stats"}
            /\ Head(rows).ok) =>
            IF Head(rows).kind = "REG"
            THEN \/ batch' = Append(batch, Head(rows))
                 \/ Flushing /\ LastEntry(flushes') = Len(batch) + 1
            ELSE /\ batch' = batch /\ imported' = imported /\ flushes' = flushes
                 /\ UNCHANGED <<players, games, game_stats, import_progress>>]_vars
    /\ [](/\ cat \in {"schedule", "player_stats"} =>
                \A i \in 1..Len(batch) : batch[i].kind = "REG"
          /\ \A y \in Years : \A g \in GameRows(y) :
                (g.ok /\ g.kind # "REG") => ~\E x \in games : x.nfl_game_id = g.id
          /\ \A y \in Years : \A r \in StatRows(y) :
                (r.ok /\ r.kind # "REG") =>
                    ~\E x \in game_stats : x.passing_yards = r.yards
          /\ \A i \in 1..Len(year_log) :
                (/\ op # "none" /\ year_log[i].ok
                 /\ year_log[i].cat \in {"schedule", "player_stats"}) =>
                    /\ year_log[i].count = Cardinality(RegularRows(DocOf(year_log[i].cat)))
                    /\ ~config.dry_run =>
                         ProgressIs(year, year_log[i].cat, "completed", year_log[i].count))

C19_Witness ==
    /\ op = "schedule" /\ pc = "year_done" /\ ~config.dry_run
    /\ year_log[1].ok /\ year_log[1].count = 1
    /\ Len(DocOf("schedule")) = 2
    /\ DocOf("schedule")[1].ok /\ DocOf("schedule")[1].kind = "POST"
    /\ DocOf("schedule")[2].ok /\ DocOf("schedule")[2].kind = "REG"
    /\ Cardinality(games) = 1
    /\ ProgressIs(year, "schedule", "completed", 1)

ParsedRows(d) == { i \in 1..Len(d) : d[i].ok }

\* C20: a row that fails to decode is passed over - the import goes on to
\* the next row with its batch, its count and the store as they were; a
\* rosters import that returned success has flushed the rows that parse in
\* batches of batch_size and the remainder, returned their number and (in a
\* non-dry run) recorded it; and without a failure of the network or the
\* storage every category import succeeds.
C20_ParseErrorsIsolated ==
    /\ [][(pc = "rows" /\ rows # << >> /\ ~Head(rows).ok) =>
            /\ pc' = "rows" /\ cat' = cat /\ rows' = Tail(rows)
            /\ batch' = batch /\ imported' = imported /\ flushes' = flushes
            /\ UNCHANGED <<players, games, game_stats, import_progress>>]_vars
    /\ []((RostersReturned /\ year_log[1].ok) =>
            /\ flushes = ExpectedFlushes(Cardinality(ParsedRows(RostersDoc)), config.batch_size)
            /\ year_log[1].count = Cardinality(ParsedRows(RostersDoc))
            /\ ~config.dry_run =>
                 ProgressIs(year, "rosters", "completed", Cardinality(ParsedRows(RostersDoc))))
    /\ [](faults = 0 => \A i \in 1..Len(year_log) : year_log[i].ok)

C20_Witness ==
    /\ RostersReturned /\ year_log[1].ok /\ ~config.dry_run
    /\ Len(RostersDoc) = 3
    /\ RostersDoc[1].ok /\ ~RostersDoc[2].ok /\ RostersDoc[3].ok
    /\ config.batch_size = 2
    /\ flushes = <<2>>
    /\ year_log[1].count = 2
    /\ Cardinality(players) = 2
    /\ ProgressIs(year, "rosters", "completed", 2)

\* C21: in a non-dry run, once a category import of the season has returned
\* success, import_progress holds (season, category, 'completed', count).
C21_ProgressForEverySuccess ==
    (~config.dry_run /\ op # "none") =>
        \A i \in 1..Len(year_log) :
            year_log[i].ok =>
                ProgressIs(year, year_log[i].cat, "completed", year_log[i].count)

SameKey(e, r) == r.season = e.season /\ r.data_type = e.data_type

\* C22: a mark_progress call leaves exactly one entry for its key, holding the
\* status and count of the call, and the entries of the other keys as they
\* were; get_import_progress returns the status of the latest mark of its
\* key, and none for a key never marked.
C22_ProgressUpsert ==
    \A i \in 1..Len(hist) :
        /\ hist[i].op = "mark_progress" =>
              /\ Cardinality({ r \in hist[i].after : SameKey(hist[i], r) }) = 1
              /\ \A r \in hist[i].after :
                     SameKey(hist[i], r) =>
                         r.status = hist[i].status /\ r.records_imported = hist[i].n
              /\ { r \in hist[i].after : ~SameKey(hist[i], r) } =
                    { r \in hist[i].before : ~SameKey(hist[i], r) }
        /\ hist[i].op = "get_import_progress" =>
              LET marks == { j \in 1..(i - 1) : /\ hist[j].op = "mark_progress"
                                                 /\ SameKey(hist[i], hist[j]) }
                  last == CHOOSE j \in marks : \A k \in marks : k <= j
              IN  hist[i].result = IF marks = {} THEN NoStatus
                                   ELSE SomeStatus(hist[last].status)

C22_Witness ==
    /\ Len(hist) = 3
    /\ hist[1].op = "mark_progress" /\ hist[2].op = "mark_progress"
    /\ SameKey(hist[1], hist[2])
    /\ hist[1].status = "in_progress" /\ hist[1].n = 0
    /\ hist[2].status = "completed" /\ hist[2].n = 1
    /\ hist[3].op = "get_import_progress" /\ SameKey(hist[2], hist[3])
    /\ hist[3].result = SomeStatus("completed")
    /\ Cardinality(import_progress) = 1

\* C23: validate_player / validate_game / validate_stat return Err exactly
\* when a required identifying field is empty, the season is outside
\* [1999, 2030] or (games, stats) the week is outside [1, 22]; the soft
\* conditions only log a warning.
C23_ValidatorClassification ==
    \A i \in 1..Len(hist) :
        LET a == hist[i].arg
            badSeason == a.season < 1999 \/ a.season > 2030
            badWeek == a.week < 1 \/ a.week > 22
        IN  /\ hist[i].op = "validate_player" =>
                  (~hist[i].result.ok <=>
                      \/ a.gsis_id = "" \/ a.full_name = "" \/ a.team = ""
                      \/ a.position = "" \/ badSeason)
            /\ hist[i].op = "validate_game" =>
                  (~hist[i].result.ok <=>
                      \/ a.game_id = "" \/ a.home_team = "" \/ a.away_team = ""
                      \/ a.gameday = "" \/ badSeason \/ badWeek)
            /\ hist[i].op = "validate_stat" =>
                  (~hist[i].result.ok <=> (a.player_id = "" \/ badSeason \/ badWeek))

\* A player of weight 500, unknown position and malformed height is accepted
\* with three warnings.
C23_Witness ==
    /\ Len(hist) = 1 /\ hist[1].op = "validate_player"
    /\ hist[1].arg.weight = <<"Some", 500>>
    /\ hist[1].arg.position = "XX"
    /\ hist[1].arg.height = <<"Some", <<"7", "5">> >>
    /\ hist[1].result.ok /\ hist[1].result.warns = 3

\* C24: normalize_team_abbr maps the eight historical codes to the current
\* ones and returns every other input upper-cased.
C24_NormalizeTotal ==
    \A i \in 1..Len(hist) :
        hist[i].op = "normalize_team_abbr" =>
            hist[i].result =
                CASE hist[i].arg = "STL" -> "LA"
                  [] hist[i].arg = "SD" -> "LAC"
                  [] hist[i].arg = "OAK" -> "LV"
                  [] hist[i].arg = "SL" -> "LA"
                  [] hist[i].arg = "BLT" -> "BAL"
                  [] hist[i].arg = "CLV" -> "CLE"
                  [] hist[i].arg = "HST" -> "HOU"
                  [] hist[i].arg = "ARZ" -> "ARI"
                  [] OTHER -> to_uppercase(hist[i].arg)

C24_Witness ==
    /\ Len(hist) = 1 /\ hist[1].op = "normalize_team_abbr"
    /\ hist[1].arg = "kc" /\ hist[1].result = "KC"

\* C25: normalize_team_abbr(x) = normalize_team_abbr(uppercase(x)) for every
\* input x.
C25_LookupIgnoresCase ==
    \A i \in 1..Len(hist) :
        hist[i].op = "normalize_team_abbr" =>
            hist[i].result = normalize_team_abbr(to_uppercase(hist[i].arg))

\* C26: for a base name that contains none of the suffixes and a suffix s,
\* clean_player_name(base + s) is the trimmed base.
C26_SuffixStripped ==
    \A i \in 1..Len(hist) :
        hist[i].op = "clean_player_name" =>
            LET base == hist[i].arg.base
                Contains(pat) ==
                    \E k \in 1..Len(base) :
                        k + Len(pat) - 1 <= Len(base) /\
                        SubSeq(base, k, k + Len(pat) - 1) = pat
            IN  (\A k \in DOMAIN Suffixes : ~Contains(Suffixes[k])) =>
                    hist[i].result = Trim(base)

\* C27: a step of import_rosters or import_schedule in which a storage
\* statement fails ends the category import with an error: the store holds
\* the records of the batch before the failing one on top of what it held
\* (nothing is rolled back, no later record is written), the rest of the
\* document is dropped, import_progress is as it was, and after rosters the
\* season goes on with player_stats.
C27_BatchFatalSeasonIsolated ==
    [][(pc = "rows" /\ cat \in {"rosters", "schedule"} /\ faults' > faults) =>
          /\ CategoryReturned
          /\ LastEntry(year_log') = Entry(cat, FALSE, 0)
          /\ import_progress' = import_progress
          /\ rows' = << >> /\ batch' = << >>
          /\ game_stats' = game_stats
          /\ \E k \in 1..(Len(FlushedBatch) + 1) :
                IF cat = "rosters"
                THEN /\ players' = UpsertPlayers(Db, SubSeq(FlushedBatch, 1, k - 1), now).players
                     /\ games' = games
                ELSE /\ games' = UpsertGames(Db, SubSeq(FlushedBatch, 1, k - 1), now).games
                     /\ players' = players
          /\ Kept(players, players') /\ Kept(games, games')
          /\ cat = "rosters" => (pc' = "begin" /\ cat' = "player_stats")
          /\ cat = "schedule" => pc' = "year_done"]_vars

\* The second of two roster records failed: the first is stored, rosters has
\* no progress entry, and the player stats of the season were imported.
C27_Witness ==
    /\ ~config.dry_run /\ op = "year" /\ pc = "year_done"
    /\ faults = 1 /\ Len(hist) = 0
    /\ LET d == docs[[cat |-> "rosters", year |-> year]].rows
       IN  /\ Len(d) = 2 /\ d[1].ok /\ d[2].ok /\ d[1].id # d[2].id
           /\ \A p \in players : p.nfl_id = d[1].id
    /\ Cardinality(players) = 1
    /\ year_log[1] = Entry("rosters", FALSE, 0)
    /\ year_log[2].ok
    /\ \A e \in import_progress : e.data_type # "rosters"
    /\ ProgressIs(year, "player_stats", "completed", year_log[2].count)

\* C28: the count of a completed player_stats import is the number of
\* records it wrote; a record whose player does not resolve is not written,
\* so the count is at most the number of regular-season rows that resolve.
C28_CountsWrittenRecords ==
    ( /\ ~config.dry_run /\ op \in {"full", "year", "update"}
      /\ Len(year_log) >= 2 /\ year_log[2].ok )
    => /\ year_log[2].count <=
             Cardinality({ i \in RegularRows(DocOf("player_stats")) :
                             StatResolves(DocOf("player_stats")[i]) })
       /\ ProgressIs(year, "player_stats", "completed", year_log[2].count)

\* C29: after a successful import of a category in a non-dry run the stored
\* row of every natural key of the document (of every key that resolves,
\* for player stats without a failed statement) holds the values of the
\* last row of the document with that key.
C29_LastDuplicateWins ==
    (~config.dry_run /\ op \in {"full", "year", "update"}) =>
        /\ (Len(year_log) >= 1 /\ year_log[1].ok) =>
              LET d == DocOf("rosters")
              IN  \A i \in ParsedRows(d) :
                    LET same == { j \in ParsedRows(d) : d[j].id = d[i].id }
                        last == CHOOSE j \in same : \A k \in same : k <= j
                    IN  \E p \in players :
                            p.nfl_id = d[i].id /\ p.team_id = TeamIdOf(d[last].team)
        /\ (Len(year_log) >= 2 /\ year_log[2].ok /\ faults = 0) =>
              LET d == DocOf("player_stats")
              IN  \A i \in RegularRows(d) :
                    LET same == { j \in RegularRows(d) :
                                    /\ d[j].id = d[i].id /\ d[j].season = d[i].season
                                    /\ d[j].week = d[i].week }
                        last == CHOOSE j \in same : \A k \in same : k <= j
                    IN  StatResolves(d[i]) =>
                          \E g \in game_stats :
                            /\ g.player_id = get_player_id_by_nfl_id(players, d[i].id)
                            /\ g.season = d[i].season /\ g.week = d[i].week
                            /\ g.passing_yards = d[last].yards

\* Three roster rows in batches of two: the first and the third are of the
\* same player, and the stored team is that of the third.
C29_Witness ==
    /\ ~config.dry_run /\ op = "year" /\ RostersReturned /\ year_log[1].ok
    /\ config.batch_size = 2 /\ flushes = <<2, 1>>
    /\ LET d == DocOf("rosters")
       IN  /\ Len(d) = 3 /\ d[1].ok /\ d[2].ok /\ d[3].ok
           /\ d[1].id = d[3].id /\ d[2].id # d[1].id
           /\ TeamIdOf(d[1].team) # TeamIdOf(d[3].team)
           /\ \E p \in players :
                 p.nfl_id = d[3].id /\ p.team_id = TeamIdOf(d[3].team)
    /\ Cardinality(players) = 2

\* C30: whatever import_progress holds, a category import that is entered
\* requests the document of its category and season, every roster record of
\* a batch flushed without a failure is written by that run, and a season
\* import ends having tried every category of the season: a category
\* recorded as 'completed' is fetched and upserted again.
C30_ProgressNeverConsulted ==
    /\ [][pc = "begin" =>
            /\ pc' = "fetch" /\ dl_state' # "idle"
            /\ dl_url' = [cat |-> cat, year |-> year]]_vars
    /\ [][(Flushing /\ cat = "rosters" /\ ~config.dry_run /\ faults' = faults) =>
            \A i \in 1..Len(FlushedBatch) :
                \E p \in players' :
                    p.nfl_id = FlushedBatch[i].id /\ p.updated_at = now]_vars
    /\ [](pc = "year_done" => CatsOf(year_log) = ExpectedCats(year))

\* The second import of a season: rosters was recorded as completed by the
\* first; the second fetched the document again, wrote its players again
\* and marked the entry again.
C30_Witness ==
    /\ ~config.dry_run /\ op = "year" /\ pc = "year_done"
    /\ Len(hist) = 1 /\ hist[1].op = "year" /\ hist[1].year = year
    /\ \E e \in hist[1].store.import_progress :
          e.season = year /\ e.data_type = "rosters" /\ e.status = "completed"
    /\ year_log[1].ok /\ year_log[1].count > 0
    /\ players # {}
    /\ \A p \in players : p.created_at < now /\ p.updated_at = now
    /\ \E e \in import_progress :
          /\ e.season = year /\ e.data_type = "rosters"
          /\ e.started_at < now /\ e.completed_at = now
====
